---- MODULE Spec2Model ----
(***************************************************************************)
(* Model of the ANVL media optimizer server (routes.js): the image and     *)
(* audio batch handlers, the zip download handler, and the filename        *)
(* sanitization they share.                                                *)
(*                                                                         *)
(* Text is modelled as sequences of integers: a multipart file name as     *)
(* received from multer is a sequence of char codes, a decoded name a      *)
(* sequence of Unicode code points.                                        *)
(***************************************************************************)
EXTENDS Integers, Sequences, FiniteSets, TLC

(***************************************************************************)
(* Bounds of the model.                                                    *)
(***************************************************************************)
\* longest file name enumerated for the sanitizer
MaxLen == 3
\* batch requests accepted over the life of the process
MaxReqs == 2
\* files carried by one batch request
MaxFiles == 2
\* references carried by one archive request
MaxRefs == 3

(***************************************************************************)
(* Characters.                                                             *)
(***************************************************************************)
\* '.'
Dot == 46
\* '_', the replacement written by the last replace() of the sanitizer
Underscore == 95
\* U+FFFD, what the UTF-8 decoder emits for an ill-formed byte sequence
ReplacementChar == 65533

RECURSIVE LastIndexOf(_, _)
\* s.lastIndexOf(c), 1-based, 0 when c does not occur
LastIndexOf(s, c) ==
    IF s = <<>> THEN 0
    ELSE IF s[Len(s)] = c THEN Len(s)
    ELSE LastIndexOf(SubSeq(s, 1, Len(s) - 1), c)

\* Buffer.from(name, 'latin1'): every char code is truncated to one byte
Latin1Bytes(name) == [i \in 1..Len(name) |-> name[i] % 256]

RECURSIVE Utf8Dec(_, _, _, _, _, _, _)
\* buf.toString('utf8'): the decoder's state is (code point so far, bytes
\* still needed, bounds of the next continuation byte); an ill-formed
\* sequence yields U+FFFD and the offending byte is read again
Utf8Dec(bytes, i, cp, needed, lower, upper, out) ==
    IF i > Len(bytes)
    THEN IF needed > 0 THEN Append(out, ReplacementChar) ELSE out
    ELSE LET b == bytes[i] IN
        IF needed = 0
        THEN IF b < 128 THEN Utf8Dec(bytes, i + 1, 0, 0, 128, 191, Append(out, b))
             ELSE IF b >= 194 /\ b <= 223
                  THEN Utf8Dec(bytes, i + 1, b % 32, 1, 128, 191, out)
             ELSE IF b >= 224 /\ b <= 239
                  THEN Utf8Dec(bytes, i + 1, b % 16, 2,
                               IF b = 224 THEN 160 ELSE 128,
                               IF b = 237 THEN 159 ELSE 191, out)
             ELSE IF b >= 240 /\ b <= 244
                  THEN Utf8Dec(bytes, i + 1, b % 8, 3,
                               IF b = 240 THEN 144 ELSE 128,
                               IF b = 244 THEN 143 ELSE 191, out)
             ELSE Utf8Dec(bytes, i + 1, 0, 0, 128, 191, Append(out, ReplacementChar))
        ELSE IF b < lower \/ b > upper
             THEN Utf8Dec(bytes, i, 0, 0, 128, 191, Append(out, ReplacementChar))
             ELSE IF needed = 1
                  THEN Utf8Dec(bytes, i + 1, 0, 0, 128, 191,
                               Append(out, cp * 64 + (b % 64)))
                  ELSE Utf8Dec(bytes, i + 1, cp * 64 + (b % 64), needed - 1,
                               128, 191, out)

\* Buffer.from(file.originalname, 'latin1').toString('utf8')
FixEncoding(originalname) ==
    Utf8Dec(Latin1Bytes(originalname), 1, 0, 0, 128, 191, <<>>)

\* path.parse(p).name for a path without separators: the part before the
\* last dot, unless there is no dot, the only dot leads the name, or the
\* name is ".."
ParsedName(p) ==
    LET d == LastIndexOf(p, Dot) IN
    IF d = 0 \/ d = 1 \/ p = <<Dot, Dot>> THEN p ELSE SubSeq(p, 1, d - 1)

\* path.extname(p) for a path without separators
ExtName(p) ==
    LET d == LastIndexOf(p, Dot) IN
    IF d = 0 \/ d = 1 \/ p = <<Dot, Dot>> THEN <<>> ELSE SubSeq(p, d, Len(p))

\* the canonical decomposition of one code point: the letters of the
\* Latin-1 supplement split into base letter and combining mark
NFDChar(c) ==
    LET up == IF c >= 224 /\ c <= 255 THEN c - 32 ELSE c
        lo == IF c >= 224 /\ c <= 255 THEN 32 ELSE 0
    IN  IF c = 255 THEN <<121, 776>>
        ELSE IF up >= 192 /\ up <= 197
             THEN <<65 + lo, CASE up = 192 -> 768 [] up = 193 -> 769
                               [] up = 194 -> 770 [] up = 195 -> 771
                               [] up = 196 -> 776 [] OTHER -> 778>>
        ELSE IF up = 199 THEN <<67 + lo, 807>>
        ELSE IF up >= 200 /\ up <= 203
             THEN <<69 + lo, CASE up = 200 -> 768 [] up = 201 -> 769
                               [] up = 202 -> 770 [] OTHER -> 776>>
        ELSE IF up >= 204 /\ up <= 207
             THEN <<73 + lo, CASE up = 204 -> 768 [] up = 205 -> 769
                               [] up = 206 -> 770 [] OTHER -> 776>>
        ELSE IF up = 209 THEN <<78 + lo, 771>>
        ELSE IF up >= 210 /\ up <= 214
             THEN <<79 + lo, CASE up = 210 -> 768 [] up = 211 -> 769
                               [] up = 212 -> 770 [] up = 213 -> 771
                               [] OTHER -> 776>>
        ELSE IF up >= 217 /\ up <= 220
             THEN <<85 + lo, CASE up = 217 -> 768 [] up = 218 -> 769
                               [] up = 219 -> 770 [] OTHER -> 776>>
        ELSE IF up = 221 THEN <<89 + lo, 769>>
        ELSE <<c>>

RECURSIVE NFD(_)
\* s.normalize('NFD')
NFD(s) == IF s = <<>> THEN <<>> ELSE NFDChar(Head(s)) \o NFD(Tail(s))

\* the class [\u0300-\u036f] of combining diacritical marks
IsCombiningMark(c) == c >= 768 /\ c <= 879

\* the class [a-zA-Z0-9._-]
IsSafeChar(c) ==
    \/ c >= 97 /\ c <= 122
    \/ c >= 65 /\ c <= 90
    \/ c >= 48 /\ c <= 57
    \/ c = Dot
    \/ c = Underscore
    \/ c = 45

\* .replace(/[\u0300-\u036f]/g, "")
StripMarks(s) == SelectSeq(s, LAMBDA c : ~IsCombiningMark(c))

\* the character written for c by .replace(/[^a-zA-Z0-9._-]/g, '_')
SafeChar(c) == IF IsSafeChar(c) THEN c ELSE Underscore

\* .replace(/[^a-zA-Z0-9._-]/g, '_')
ReplaceUnsafe(s) == [i \in 1..Len(s) |-> SafeChar(s[i])]

\* the base id of an uploaded file: encoding fix, path.parse().name,
\* normalize, strip marks, replace unsafe characters
Sanitize(originalname) ==
    ReplaceUnsafe(StripMarks(NFD(ParsedName(FixEncoding(originalname)))))

(***************************************************************************)
(* Paths.                                                                  *)
(***************************************************************************)
\* '/'
Slash == 47
\* "/processed/", the prefix of every reference a batch response returns
ProcessedPrefix == <<47, 112, 114, 111, 99, 101, 115, 115, 101, 100, 47>>
\* ".avif"
AvifExt == <<46, 97, 118, 105, 102>>
\* ".webp"
WebpExt == <<46, 119, 101, 98, 112>>
\* ".mp3"
Mp3Ext == <<46, 109, 112, 51>>
\* "_resized"
ResizedSuffix == <<95, 114, 101, 115, 105, 122, 101, 100>>

\* c.toLowerCase() on a letter of ASCII or of the Latin-1 supplement
LowerChar(c) ==
    IF (c >= 65 /\ c <= 90) \/ (c >= 192 /\ c <= 222 /\ c # 215)
    THEN c + 32 ELSE c

\* s.toLowerCase()
ToLowerCase(s) == [i \in 1..Len(s) |-> LowerChar(s[i])]

RECURSIVE StripTrailingSlashes(_)
\* path.basename ignores the separators that end a path
StripTrailingSlashes(p) ==
    IF p # <<>> /\ p[Len(p)] = Slash
    THEN StripTrailingSlashes(SubSeq(p, 1, Len(p) - 1))
    ELSE p

\* path.basename(p): what follows the last separator
Basename(p) ==
    LET q == StripTrailingSlashes(p) IN
    SubSeq(q, LastIndexOf(q, Slash) + 1, Len(q))

\* `${filename}.avif`
AvifFilename(originalname) == Sanitize(originalname) \o AvifExt
\* `${filename}.webp`
WebpFilename(originalname) == Sanitize(originalname) \o WebpExt
\* `${filename}.mp3`
Mp3Filename(originalname) == Sanitize(originalname) \o Mp3Ext
\* `${filename}_resized${ext}`, ext taken from the name as received
ResizedOriginalFilename(originalname) ==
    Sanitize(originalname) \o ResizedSuffix \o ToLowerCase(ExtName(originalname))

\* `/processed/${name}`
VirtualPath(name) == ProcessedPrefix \o name

(***************************************************************************)
(* The server: requests, the processed/ directory.                         *)
(***************************************************************************)
VARIABLES
    \* the requests the process has accepted, by order of arrival
    reqs,
    \* the processed/ directory: file name -> the upload its bytes were
    \* encoded from, as <<request, position in the request>>
    disk,
    \* the uploads/ directory: the upload, as <<request, position in the
    \* request>>, -> the name it was sent under
    uploads,
    \* whether app.listen() has been called
    listening,
    \* the file name given to the sanitizer, the base id it returned, and
    \* whether it has run
    originalname, filename, sanitized,
    \* one uploaded item on its own: the options the request carries for it,
    \* the configuration the handler resolved, and the conversion so far
    payload, cfg, conv,
    \* one archive reference on its own: the string the request lists, the
    \* location the handler computed from it, and whether it has
    fileUrl, filePath, resolved,
    \* the page: the two lists of items (files and audioFiles), the flag of a batch in progress,
    \* the batch requests that have not been answered yet, and the answer
    \* the server gave to the last direct upload
    clientFiles, audioFiles, isProcessing, outstanding, uploaded

sanVars == <<originalname, filename, sanitized>>
cfgVars == <<payload, cfg, conv>>
refVars == <<fileUrl, filePath, resolved>>
clientVars == <<clientFiles, audioFiles, isProcessing, outstanding, uploaded>>

vars == <<reqs, disk, uploads, listening, sanVars, cfgVars, refVars, clientVars>>

ReqIds == 1..MaxReqs

\* "a b.png"
NameA == <<97, 32, 98, 46, 112, 110, 103>>
\* "a_b.png"
NameB == <<97, 95, 98, 46, 112, 110, 103>>
\* "c.jpg"
NameC == <<99, 46, 106, 112, 103>>
\* the names images are uploaded under: two names of one base id
ImageNames == {NameA, NameB}
\* the names audio files are uploaded under: two names of different base ids
AudioNames == {NameA, NameC}

\* the form fields upload.fields() accepts on /process-audio, in the order
\* the handler concatenates them
FieldNames == <<"images", "audio", "files">>

\* an uploaded file as multer hands it over: corrupt stands for content the
\* codec rejects, hangs for content on which the codec never settles its
\* promise (neither 'end' nor 'error')
ImageItems ==
    [originalname : ImageNames, field : {"images"}, corrupt : BOOLEAN, hangs : {FALSE}]
AudioItems ==
    [originalname : AudioNames, field : {"images", "audio"}, corrupt : BOOLEAN,
     hangs : {FALSE}]

RECURSIVE SeqsUpTo(_, _)
\* the sequences over S of length at most n
SeqsUpTo(S, n) ==
    IF n = 0 THEN {<<>>}
    ELSE LET shorter == SeqsUpTo(S, n - 1) IN
         shorter \cup {Append(s, x) : s \in {t \in shorter : Len(t) = n - 1}, x \in S}

\* a reference that is not a string (a number in the JSON list)
NotAString == <<-1>>
\* "/x/": a prefix no batch response ever returns
OtherPrefix == <<47, 120, 47>>
\* "zz.avif": a file no upload of these names produces
BogusFile == <<122, 122>> \o AvifExt

\* the references an archive request may list
RefInputs ==
    {VirtualPath(AvifFilename(NameA)), VirtualPath(WebpFilename(NameA)),
     VirtualPath(Mp3Filename(NameC)), OtherPrefix \o AvifFilename(NameA), VirtualPath(BogusFile), NotAString}

\* a request slot not yet used
Idle == [kind |-> "idle", multipart |-> TRUE, sub |-> <<>>, files |-> <<>>, opts |-> {},
         i |-> 0, pc |-> "idle", out |-> <<>>, status |-> 0,
         body |-> "none", refs |-> <<>>, entries |-> <<>>, archive |-> FALSE,
         seen |-> {}, overlap |-> {}]

\* the slot the next request takes
NextReq == Cardinality({r \in ReqIds : reqs[r].kind # "idle"}) + 1

\* the requests whose handler is suspended at an await
InFlight == {r \in ReqIds : reqs[r].status = 0 /\ reqs[r].kind # "idle"}

\* WriteFile into a directory that is emptied first
WriteFileInEmptied(d, name, owner) == [f \in {name} |-> owner]

\* fs writes name in processed/, replacing what was there
WriteFile(d, name, owner) ==
    [f \in DOMAIN d \cup {name} |-> IF f = name THEN owner ELSE d[f]]

\* a file of the run before in processed/, and one in uploads/
LeftoverOwner == <<0, 0>>
LeftoverOutput == [f \in {AvifFilename(NameA)} |-> LeftoverOwner]
LeftoverUpload == [u \in {LeftoverOwner} |-> NameA]

\* emptyDirectory(dir): every entry of dir is unlinked
EmptyDirectory(dir) == [f \in {} |-> dir[f]]

\* the module body of index.js: both directories are emptied, then
\* app.listen() is called
Startup ==
    /\ ~listening
    /\ uploads' = EmptyDirectory(uploads)
    /\ disk' = EmptyDirectory(disk)
    /\ listening' = TRUE
    /\ UNCHANGED <<reqs, sanVars, cfgVars, refVars, clientVars>>

\* multer's diskStorage: every file of a multipart request is written in
\* uploads/ under a name of its own before the handler runs
Stage(u, r, sub) ==
    [k \in DOMAIN u \cup {<<r, j>> : j \in 1..Len(sub)} |->
        IF k \in DOMAIN u THEN u[k] ELSE sub[k[2]].originalname]

\* the positions of sub whose file arrived in the given form field
InField(sub, fld) == SelectSeq([k \in 1..Len(sub) |-> k], LAMBDA k : sub[k].field = fld)

\* files = [].concat(req.files['images'], req.files['audio'], req.files['files'])
AudioFiles(sub) ==
    InField(sub, FieldNames[1]) \o InField(sub, FieldNames[2]) \o InField(sub, FieldNames[3])

\* req.files of upload.array('images'): the files in arrival order
ImageFiles(sub) == [k \in 1..Len(sub) |-> k]

\* the file the loop of request r is at
CurFile(r) == reqs[r].sub[reqs[r].files[reqs[r].i]]
\* the upload the loop of request r is at, as <<request, position>>
CurOwner(r) == <<r, reqs[r].files[reqs[r].i]>>

\* the catch block of a handler: a single 500 response
Fail500(r) == [reqs EXCEPT ![r].status = 500, ![r].pc = "done"]

\* processedImages.push(result) and the end of one loop iteration:
\* the next file, or res.json({ files }) after the last
PushAndAdvance(r, result) ==
    LET q == reqs[r]
        out2 == Append(q.out, result)
    IN  IF q.i < Len(q.files)
        THEN [reqs EXCEPT ![r].out = out2, ![r].i = q.i + 1,
                          ![r].pc = IF q.kind = "image" THEN "avif" ELSE "ffmpeg"]
        ELSE [reqs EXCEPT ![r].out = out2, ![r].status = 200, ![r].pc = "done"]

\* NoFilesUploaded testing only that req.files is there
NoFilesUploadedMissingOnly(multipart, files) == ~multipart

\* !req.files || req.files.length === 0: multer leaves req.files undefined
\* when the request is not multipart
NoFilesUploaded(multipart, files) == ~multipart \/ Len(files) = 0

\* POST /process-images up to the first await. A for...of over no files
\* runs no iteration and goes on to res.json({ files: [] }).
StartImages(multipart, sub, opts) ==
    LET r == NextReq IN
    /\ listening
    /\ r \in ReqIds
    /\ multipart \/ sub = <<>>
    /\ reqs' = [reqs EXCEPT ![r] =
          IF NoFilesUploaded(multipart, ImageFiles(sub))
          THEN [Idle EXCEPT !.kind = "image", !.multipart = multipart,
                            !.status = 400, !.pc = "done"]
          ELSE IF Len(ImageFiles(sub)) = 0
          THEN [Idle EXCEPT !.kind = "image", !.status = 200, !.pc = "done"]
          ELSE [Idle EXCEPT !.kind = "image", !.sub = sub, !.files = ImageFiles(sub),
                            !.opts = opts, !.i = 1, !.pc = "avif",
                            !.overlap = InFlight]]
    /\ uploads' = IF multipart THEN Stage(uploads, r, sub) ELSE uploads
    /\ UNCHANGED <<disk, listening, sanVars, cfgVars, refVars, clientVars>>

\* await imagePipeline.clone().avif().toFile(avifPath): the handler goes on
\* when the promise settles
ImgAvif(r) ==
    /\ reqs[r].pc = "avif"
    /\ ~CurFile(r).hangs
    /\ IF CurFile(r).corrupt
       THEN /\ reqs' = Fail500(r)
            /\ UNCHANGED disk
       ELSE /\ disk' = WriteFile(disk, AvifFilename(CurFile(r).originalname), CurOwner(r))
            /\ reqs' = [reqs EXCEPT ![r].pc = "webp"]
    /\ UNCHANGED <<uploads, listening, sanVars, cfgVars, refVars, clientVars>>

\* await imagePipeline.clone().webp().toFile(webpPath)
ImgWebp(r) ==
    /\ reqs[r].pc = "webp"
    /\ disk' = WriteFile(disk, WebpFilename(CurFile(r).originalname), CurOwner(r))
    /\ reqs' = [reqs EXCEPT ![r].pc =
                  IF CurFile(r).originalname \in reqs[r].opts THEN "resized" ELSE "lqip"]
    /\ UNCHANGED <<uploads, listening, sanVars, cfgVars, refVars, clientVars>>

\* await resizedPipeline.toFile(resizedOriginalPath)
ImgResized(r) ==
    /\ reqs[r].pc = "resized"
    /\ disk' = WriteFile(disk, ResizedOriginalFilename(CurFile(r).originalname), CurOwner(r))
    /\ reqs' = [reqs EXCEPT ![r].pc = "lqip"]
    /\ UNCHANGED <<uploads, listening, sanVars, cfgVars, refVars, clientVars>>

\* the result object of one image
ImageResult(r) ==
    LET n == CurFile(r).originalname IN
    [item |-> reqs[r].files[reqs[r].i],
     originalName |-> n,
     paths |-> <<VirtualPath(AvifFilename(n)), VirtualPath(WebpFilename(n))>>
               \o (IF n \in reqs[r].opts
                   THEN <<VirtualPath(ResizedOriginalFilename(n))>> ELSE <<>>)]

\* await ...toBuffer() of the placeholder, then push and loop
ImgLqip(r) ==
    /\ reqs[r].pc = "lqip"
    /\ reqs' = PushAndAdvance(r, ImageResult(r))
    /\ UNCHANGED <<disk, uploads, listening, sanVars, cfgVars, refVars, clientVars>>

\* files.length === 0 after the three fields were concatenated
NoAudioFilesUploaded(sub) == Len(AudioFiles(sub)) = 0

\* POST /process-audio up to the first await. When the request is not
\* multipart req.files is undefined and req.files['images'] throws inside
\* the try block: the catch block answers 500.
StartAudio(multipart, sub) ==
    LET r == NextReq IN
    /\ listening
    /\ r \in ReqIds
    /\ multipart \/ sub = <<>>
    /\ reqs' = [reqs EXCEPT ![r] =
          IF ~multipart
          THEN [Idle EXCEPT !.kind = "audio", !.multipart = FALSE,
                            !.status = 500, !.pc = "done"]
          ELSE IF NoAudioFilesUploaded(sub)
          THEN [Idle EXCEPT !.kind = "audio", !.sub = sub, !.status = 400, !.pc = "done"]
          ELSE [Idle EXCEPT !.kind = "audio", !.sub = sub, !.files = AudioFiles(sub),
                            !.i = 1, !.pc = "ffmpeg", !.overlap = InFlight]]
    /\ uploads' = IF multipart THEN Stage(uploads, r, sub) ELSE uploads
    /\ UNCHANGED <<disk, listening, sanVars, cfgVars, refVars, clientVars>>

\* the result object of one audio file
AudioResult(r) ==
    LET n == CurFile(r).originalname IN
    [item |-> reqs[r].files[reqs[r].i],
     originalName |-> n,
     paths |-> <<VirtualPath(Mp3Filename(n))>>]

\* await new Promise(...ffmpeg...save(mp3Path)): 'error' rejects, 'end'
\* resolves; then push and loop
AudioTranscode(r) ==
    /\ reqs[r].pc = "ffmpeg"
    /\ ~CurFile(r).hangs
    /\ IF CurFile(r).corrupt
       THEN /\ reqs' = Fail500(r)
            /\ UNCHANGED disk
       ELSE /\ disk' = WriteFile(disk, Mp3Filename(CurFile(r).originalname), CurOwner(r))
            /\ reqs' = PushAndAdvance(r, AudioResult(r))
    /\ UNCHANGED <<uploads, listening, sanVars, cfgVars, refVars, clientVars>>

\* ExistsInProcessed looking for the virtual path instead of the file name
ExistsInProcessedByPath(d, name) == VirtualPath(name) \in DOMAIN d

\* fs.existsSync(path.join(__dirname, 'processed', fileName))
ExistsInProcessed(d, name) == name \in DOMAIN d

RECURSIVE ArchiveEntriesUntilMissing(_, _)
\* ArchiveEntries giving up at the first reference that does not resolve
ArchiveEntriesUntilMissing(d, refs) ==
    IF refs = <<>> THEN <<>>
    ELSE LET name == Basename(Head(refs)) IN
         IF ExistsInProcessed(d, name)
         THEN <<name>> \o ArchiveEntriesUntilMissing(d, Tail(refs))
         ELSE <<>>

RECURSIVE ArchiveEntries(_, _)
\* files.forEach(...): the entry names archive.file() is called with
ArchiveEntries(d, refs) ==
    IF refs = <<>> THEN <<>>
    ELSE LET name == Basename(Head(refs)) IN
         (IF ExistsInProcessed(d, name) THEN <<name>> ELSE <<>>)
         \o ArchiveEntries(d, Tail(refs))

\* NoFilesSpecified without the test of the length
NoFilesSpecifiedAnyList(body, refs) == body # "list"

\* !files || !Array.isArray(files) || files.length === 0, for a body whose
\* files member is missing, not an array, or the array refs
NoFilesSpecified(body, refs) == body # "list" \/ Len(refs) = 0

\* POST /download-zip. A reference that is not a string makes
\* path.basename throw inside forEach, after the archive was piped to the
\* response: the catch block answers 500. seen records what existsSync saw.
DownloadZip(body, refs) ==
    LET r == NextReq IN
    /\ listening
    /\ r \in ReqIds
    /\ body = "list" \/ refs = <<>>
    /\ reqs' = [reqs EXCEPT ![r] =
          IF NoFilesSpecified(body, refs)
          THEN [Idle EXCEPT !.kind = "zip", !.body = body, !.refs = refs,
                            !.status = 400, !.pc = "done"]
          ELSE IF \E k \in 1..Len(refs) : refs[k] = NotAString
          THEN [Idle EXCEPT !.kind = "zip", !.body = body, !.refs = refs,
                            !.archive = TRUE, !.status = 500, !.pc = "done"]
          ELSE [Idle EXCEPT !.kind = "zip", !.body = body, !.refs = refs,
                            !.archive = TRUE, !.seen = DOMAIN disk,
                            !.entries = ArchiveEntries(disk, refs),
                            !.status = 200, !.pc = "done"]]
    /\ UNCHANGED <<disk, uploads, listening, sanVars, cfgVars, refVars, clientVars>>

(***************************************************************************)
(* One item and its options. A member of a JSON object is <<>> when it is  *)
(* missing (undefined in the handler) and <<v>> when it is there. Speeds   *)
(* are in tenths: 10 is the factor 1.0.                                    *)
(***************************************************************************)
\* quality when the entry gives none
DefaultQuality == 80
\* options.bitrate || '192k'
DefaultBitrate == "192k"
\* options.speed || 1.0, in tenths
DefaultSpeed == 10
\* audioChannels for 'mono' and for anything else
MonoChannels == 1
StereoChannels == 2

\* what req.body.resizeOptions / req.body.audioConfigs can be: not sent,
\* text JSON.parse rejects, the JSON text null, a JSON number, a JSON object
BodyKinds == {"absent", "unparsable", "null", "scalar", "object"}

\* the values an entry may give for each member
Qualities == {<<>>, <<-5>>, <<0>>, <<1>>, <<50>>, <<100>>, <<150>>}
Dimensions == {<<>>, <<40>>}
Bitrates == {<<>>, <<"64k">>, <<"128k">>, <<"192k">>, <<"320k">>}
ChannelNames == {<<>>, <<"mono">>, <<"stereo">>, <<"5.1">>}
Speeds == {<<>>, <<0>>, <<3>>, <<5>>, <<10>>, <<15>>, <<20>>}

\* what payload[file.originalname] can be. shape: "none" no such key,
\* "falsy" null/0/false/"", "scalar" a number or string that is truthy,
\* "object" an object with the members given
NoEntry ==
    [shape |-> "none", width |-> <<>>, height |-> <<>>, quality |-> <<>>,
     bitrate |-> <<>>, channels |-> <<>>, speed |-> <<>>]
ImageEntries ==
    {[NoEntry EXCEPT !.shape = sh] : sh \in {"none", "falsy", "scalar"}}
    \cup {[NoEntry EXCEPT !.shape = "object", !.width = w, !.height = h, !.quality = q] :
             w \in Dimensions, h \in Dimensions, q \in Qualities}
AudioEntries ==
    {[NoEntry EXCEPT !.shape = sh] : sh \in {"none", "falsy", "scalar"}}
    \cup {[NoEntry EXCEPT !.shape = "object", !.bitrate = b, !.channels = c, !.speed = v] :
             b \in Bitrates, c \in ChannelNames, v \in Speeds}

\* the options one request carries for one item
NoPayload == [kind |-> "none", body |-> "absent", entry |-> NoEntry]
Payloads ==
    {[kind |-> "image", body |-> b, entry |-> NoEntry] : b \in BodyKinds \ {"object"}}
    \cup {[kind |-> "image", body |-> "object", entry |-> e] : e \in ImageEntries}
    \cup {[kind |-> "audio", body |-> b, entry |-> NoEntry] : b \in BodyKinds \ {"object"}}
    \cup {[kind |-> "audio", body |-> "object", entry |-> e] : e \in AudioEntries}

\* JSON.parse inside try/catch: the catch keeps the initial {}. shape "null"
\* is the value null, any other shape reads members like an object
ParseOptions(body) ==
    IF body = "null" THEN "null" ELSE IF body = "scalar" THEN "scalar" ELSE "object"

\* payload[file.originalname] throws a TypeError when payload is null
LookupThrows(p) == ParseOptions(p.body) = "null"

\* payload[file.originalname]: undefined unless the object has the key
Lookup(p) == IF p.body = "object" THEN p.entry ELSE NoEntry

\* a value in a condition: undefined, null, 0, '' are false
Truthy(e) == e.shape \in {"scalar", "object"}
TruthyMember(m) == m # <<>> /\ m # <<0>>

\* let resizeOptions = null; if (entry) resizeOptions = entry
ResizeOptionsOf(e) == IF Truthy(e) THEN e ELSE [NoEntry EXCEPT !.shape = "falsy"]

\* ResolveQuality falling back to the best quality
ResolveQualityBest(ro) ==
    IF Truthy(ro) /\ TruthyMember(ro.quality) THEN ro.quality[1] ELSE 100

\* resizeOptions && resizeOptions.quality ? parseInt(resizeOptions.quality) : 80
\* (parseInt of an integer is that integer)
ResolveQuality(ro) ==
    IF Truthy(ro) /\ TruthyMember(ro.quality) THEN ro.quality[1] ELSE DefaultQuality

\* audioConfigs[file.originalname] || {}
AudioOptionsOf(e) == IF Truthy(e) THEN e ELSE [NoEntry EXCEPT !.shape = "object"]

\* options.bitrate || '192k'
ResolveBitrate(o) == IF o.bitrate # <<>> THEN o.bitrate[1] ELSE DefaultBitrate

\* ResolveChannels taking everything but 'stereo' for mono
ResolveChannelsUnlessStereo(o) ==
    IF o.channels = <<"stereo">> THEN StereoChannels ELSE MonoChannels

\* options.channels === 'mono' ? 1 : 2
ResolveChannels(o) == IF o.channels = <<"mono">> THEN MonoChannels ELSE StereoChannels

\* options.speed || 1.0
ResolveSpeed(o) == IF TruthyMember(o.speed) THEN o.speed[1] ELSE DefaultSpeed

\* the conversion of the item before the handler reached it
NotStarted ==
    [pc |-> "new", calls |-> <<>>, artifacts |-> <<>>, lqip |-> <<>>, cause |-> "none"]

\* the configuration of an image: resizeOptions and quality
ImageConfig(p) ==
    LET ro == ResizeOptionsOf(Lookup(p)) IN
    [resizeOptions |-> ro, quality |-> ResolveQuality(ro)]

\* the configuration of an audio file: bitrate, channels, speed
AudioConfig(p) ==
    LET o == AudioOptionsOf(Lookup(p)) IN
    [bitrate |-> ResolveBitrate(o), channels |-> ResolveChannels(o),
     speed |-> ResolveSpeed(o)]

\* a call of sharp
SharpCall(op, quality, width, height) ==
    [op |-> op, quality |-> quality, width |-> width, height |-> height]

\* if (resizeOptions) imagePipeline.resize({ width, height, fit: 'fill' })
ResizeCalls(c) ==
    IF Truthy(c.resizeOptions)
    THEN <<SharpCall("resize", <<>>, c.resizeOptions.width, c.resizeOptions.height)>>
    ELSE <<>>

\* .avif({ quality })
AvifCall(c) == SharpCall("avif", <<c.quality>>, <<>>, <<>>)
\* .webp({ quality })
WebpCall(c) == SharpCall("webp", <<c.quality>>, <<>>, <<>>)

\* if (resizeOptions) { ....png({ quality }) or .jpeg({ quality })
\* ...toFile(resizedOriginalPath) } on the resized pipeline
ResizedOriginalCalls(c) ==
    IF Truthy(c.resizeOptions)
    THEN <<SharpCall("resizedOriginal", <<c.quality>>, c.resizeOptions.width,
                     c.resizeOptions.height)>>
    ELSE <<>>

\* .resize({ width: 20, fit: 'inside' }).blur(1).jpeg({ quality: 20 }).toBuffer()
LqipCall == SharpCall("lqip", <<20>>, <<20>>, <<>>)

\* the files of processed/ an image result names
ImageArtifacts(c) ==
    <<"avif", "webp">> \o (IF Truthy(c.resizeOptions) THEN <<"resizedOriginal">> ELSE <<>>)

\* "data:image/jpeg;base64," followed by the base64 text
LqipDataUrl(base64) ==
    <<100, 97, 116, 97, 58, 105, 109, 97, 103, 101, 47, 106, 112, 101, 103,
      59, 98, 97, 115, 101, 54, 52, 44>> \o base64

\* "AA": the base64 text of some placeholder
SomeBase64 == <<65, 65>>

\* TempoFilters adding the filter only to speed a file up
TempoFiltersWhenFaster(speed) ==
    IF speed > DefaultSpeed THEN <<<<"atempo", speed>>>> ELSE <<>>

\* if (speed !== 1.0) command.audioFilters(`atempo=${speed}`)
TempoFilters(speed) ==
    IF speed # DefaultSpeed THEN <<<<"atempo", speed>>>> ELSE <<>>

\* ffmpeg(file.path).audioBitrate(bitrate).audioChannels(channels)
\* [.audioFilters(...)].toFormat('mp3')...save(mp3Path)
FfmpegCall(c) ==
    [op |-> "ffmpeg", bitrate |-> c.bitrate, channels |-> c.channels,
     filters |-> TempoFilters(c.speed), format |-> "mp3"]

\* the start of a loop iteration of /process-images: the options of the
\* file. The TypeError of a null payload leaves the loop for the catch block
ConfigureImage ==
    /\ payload.kind = "image" /\ conv.pc = "new"
    /\ IF LookupThrows(payload)
       THEN /\ conv' = [conv EXCEPT !.pc = "failed", !.cause = "payload"]
            /\ UNCHANGED cfg
       ELSE /\ cfg' = <<ImageConfig(payload)>>
            /\ conv' = [conv EXCEPT !.pc = "configured"]
    /\ UNCHANGED <<reqs, disk, uploads, listening, sanVars, payload, refVars, clientVars>>

\* the rest of the iteration: the encodes. sharp accepts or rejects the
\* file and the parameters; a rejection at the first encode ends the loop
ConvertImage ==
    /\ payload.kind = "image" /\ conv.pc = "configured"
    /\ \E accepts \in BOOLEAN :
          conv' = IF accepts
                  THEN [pc |-> "done",
                        calls |-> ResizeCalls(cfg[1]) \o <<AvifCall(cfg[1]), WebpCall(cfg[1])>>
                                  \o ResizedOriginalCalls(cfg[1]) \o <<LqipCall>>,
                        artifacts |-> ImageArtifacts(cfg[1]),
                        lqip |-> LqipDataUrl(SomeBase64), cause |-> "none"]
                  ELSE [pc |-> "failed",
                        calls |-> ResizeCalls(cfg[1]) \o <<AvifCall(cfg[1])>>,
                        artifacts |-> <<>>, lqip |-> <<>>, cause |-> "codec"]
    /\ UNCHANGED <<reqs, disk, uploads, listening, sanVars, payload, cfg, refVars, clientVars>>

\* the start of a loop iteration of /process-audio: the options of the file
ConfigureAudio ==
    /\ payload.kind = "audio" /\ conv.pc = "new"
    /\ IF LookupThrows(payload)
       THEN /\ conv' = [conv EXCEPT !.pc = "failed", !.cause = "payload"]
            /\ UNCHANGED cfg
       ELSE /\ cfg' = <<AudioConfig(payload)>>
            /\ conv' = [conv EXCEPT !.pc = "configured"]
    /\ UNCHANGED <<reqs, disk, uploads, listening, sanVars, payload, refVars, clientVars>>

\* await new Promise(...): one ffmpeg command; 'end' resolves, 'error' rejects
ConvertAudio ==
    /\ payload.kind = "audio" /\ conv.pc = "configured"
    /\ \E accepts \in BOOLEAN :
          conv' = IF accepts
                  THEN [pc |-> "done", calls |-> <<FfmpegCall(cfg[1])>>,
                        artifacts |-> <<"mp3">>, lqip |-> <<>>, cause |-> "none"]
                  ELSE [pc |-> "failed", calls |-> <<FfmpegCall(cfg[1])>>,
                        artifacts |-> <<>>, lqip |-> <<>>, cause |-> "codec"]
    /\ UNCHANGED <<reqs, disk, uploads, listening, sanVars, payload, cfg, refVars, clientVars>>

\* the option payloads worth sending with sub: entries for names that are
\* not uploaded are never looked up
OptsFor(sub) == SUBSET {sub[k].originalname : k \in 1..Len(sub)}

\* no item is with the sanitizer
SanIdle == originalname = <<>> /\ filename = <<>> /\ sanitized = FALSE
\* no item is being configured
CfgIdle == payload = NoPayload /\ cfg = <<>> /\ conv = NotStarted
\* no reference is being resolved
RefIdle == fileUrl = <<>> /\ filePath = <<>> /\ resolved = "none"
\* the page as it is mounted
ClientIdle ==
    /\ clientFiles = <<>>
    /\ audioFiles = <<>>
    /\ isProcessing = FALSE
    /\ outstanding = <<>>
    /\ uploaded = <<>>
\* the process before it was started, its directories empty
ServerIdle ==
    /\ reqs = [r \in ReqIds |-> Idle]
    /\ disk = <<>>
    /\ uploads = <<>>
    /\ listening = FALSE

\* the process is launched: the directories hold what the run before left
Init ==
    /\ reqs = [r \in ReqIds |-> Idle]
    /\ disk \in {<<>>, LeftoverOutput}
    /\ uploads \in {<<>>, LeftoverUpload}
    /\ listening = FALSE
    /\ SanIdle
    /\ CfgIdle
    /\ RefIdle
    /\ ClientIdle

\* the image batches, audio batches and archive lists a client may send
ImageBatches == SeqsUpTo(ImageItems, MaxFiles)
AudioBatches == SeqsUpTo(AudioItems, MaxFiles)
RefLists == SeqsUpTo(RefInputs, MaxRefs)

\* a client posts to /process-images
SubmitImages ==
    /\ NextReq \in ReqIds
    /\ \E multipart \in BOOLEAN : \E sub \in ImageBatches :
          \E opts \in OptsFor(sub) : StartImages(multipart, sub, opts)

\* a client posts to /process-audio
SubmitAudio ==
    /\ NextReq \in ReqIds
    /\ \E multipart \in BOOLEAN : \E sub \in AudioBatches : StartAudio(multipart, sub)

\* a client posts to /download-zip
SubmitZip ==
    /\ NextReq \in ReqIds
    /\ \E body \in {"missing", "notlist", "list"} :
          \E refs \in RefLists : DownloadZip(body, refs)

Next ==
    \/ Startup
    \/ SubmitImages
    \/ \E r \in ReqIds : ImgAvif(r)
    \/ \E r \in ReqIds : ImgWebp(r)
    \/ \E r \in ReqIds : ImgResized(r)
    \/ \E r \in ReqIds : ImgLqip(r)
    \/ SubmitAudio
    \/ \E r \in ReqIds : AudioTranscode(r)
    \/ SubmitZip

Spec == Init /\ [][Next]_vars

(***************************************************************************)
(* The sanitizer on its own, over every short file name.                   *)
(***************************************************************************)
\* the char codes file names are built from: 'a', '.', ' ', '-', the bytes
\* C3 A9 (U+00E9 in UTF-8) and CC 81 (U+0301 in UTF-8), and U+0301 itself
SanChars == {97, 46, 32, 45, 195, 169, 204, 129, 769}

\* multer drops a part whose file name is empty
SanNames == SeqsUpTo(SanChars, MaxLen) \ {<<>>}

InitSan ==
    /\ ServerIdle
    /\ originalname \in SanNames
    /\ filename = <<>>
    /\ sanitized = FALSE
    /\ CfgIdle
    /\ RefIdle
    /\ ClientIdle

\* the first statements of a loop iteration: the base id of the file
SanitizeName ==
    /\ ~sanitized
    /\ filename' = Sanitize(originalname)
    /\ sanitized' = TRUE
    /\ UNCHANGED <<reqs, disk, uploads, listening, originalname, cfgVars, refVars, clientVars>>

NextSan == SanitizeName

SpecSan == InitSan /\ [][NextSan]_vars

(***************************************************************************)
(* The batch handlers with a codec that may never settle. The event loop   *)
(* runs the continuation of every await whose promise has settled.         *)
(***************************************************************************)
\* "c": a file uploaded under a name of one letter
NameShort == <<99>>
LiveImageItems ==
    [originalname : {NameShort}, field : {"images"}, corrupt : {FALSE}, hangs : BOOLEAN]
LiveAudioItems ==
    [originalname : {NameShort}, field : {"audio"}, corrupt : {FALSE}, hangs : BOOLEAN]
LiveImageBatches == SeqsUpTo(LiveImageItems, MaxFiles)
LiveAudioBatches == SeqsUpTo(LiveAudioItems, MaxFiles)

SubmitImagesLive ==
    /\ NextReq \in ReqIds
    /\ \E sub \in LiveImageBatches : \E opts \in OptsFor(sub) : StartImages(TRUE, sub, opts)

SubmitAudioLive ==
    /\ NextReq \in ReqIds
    /\ \E sub \in LiveAudioBatches : StartAudio(TRUE, sub)

\* the continuations of the awaits of the two handlers
HandlerStep ==
    \/ \E r \in ReqIds : ImgAvif(r)
    \/ \E r \in ReqIds : ImgWebp(r)
    \/ \E r \in ReqIds : ImgResized(r)
    \/ \E r \in ReqIds : ImgLqip(r)
    \/ \E r \in ReqIds : AudioTranscode(r)

NextLive ==
    \/ Startup
    \/ SubmitImagesLive
    \/ SubmitAudioLive
    \/ HandlerStep

SpecLive == Init /\ [][NextLive]_vars /\ WF_vars(HandlerStep)

(***************************************************************************)
(* One archive reference on its own. A location is the sequence of path    *)
(* segments below __dirname: <<>> is the directory of the server's source. *)
(***************************************************************************)
\* the longest reference
MaxRefLen == 4
\* "a"
OutputName == <<97>>
\* the characters of the references: '.', '/' and a letter
RefChars == {Dot, Slash, OutputName[1]}
\* the references a request may list
RefStrings == SeqsUpTo(RefChars, MaxRefLen)

\* 'processed', the second argument of path.join
ProcessedDirName == SubSeq(ProcessedPrefix, 2, Len(ProcessedPrefix) - 1)
\* ".."
DotDot == <<Dot, Dot>>

RECURSIVE PathJoin(_, _)
\* path.join(__dirname, ...segs): the segments are joined and the result is
\* normalized: empty and '.' segments are dropped, '..' removes the segment
\* before it. base is the location reached so far.
PathJoin(base, segs) ==
    IF segs = <<>> THEN base
    ELSE LET seg == Head(segs) IN
         PathJoin(IF seg = <<>> \/ seg = <<Dot>> THEN base
                  ELSE IF seg = DotDot
                  THEN (IF base = <<>> THEN base ELSE SubSeq(base, 1, Len(base) - 1))
                  ELSE Append(base, seg),
                  Tail(segs))

\* fs.existsSync(loc): __dirname and processed/ are directories that exist;
\* below processed/ there are the files of disk
ExistsSync(loc) ==
    \/ loc = <<>>
    \/ loc = <<ProcessedDirName>>
    \/ Len(loc) = 2 /\ loc[1] = ProcessedDirName /\ ExistsInProcessed(disk, loc[2])

\* processed/ holds one output, or none
InitRef ==
    /\ reqs = [r \in ReqIds |-> Idle]
    /\ disk \in {<<>>, [f \in {OutputName} |-> <<1, 1>>]}
    /\ uploads = <<>>
    /\ listening = TRUE
    /\ SanIdle
    /\ CfgIdle
    /\ fileUrl \in RefStrings
    /\ filePath = <<>>
    /\ resolved = "none"
    /\ ClientIdle

\* one iteration of files.forEach in /download-zip: the location is
\* computed and, when it exists, handed to archive.file()
ResolveReference ==
    /\ resolved = "none"
    /\ LET loc == PathJoin(<<>>, <<ProcessedDirName, Basename(fileUrl)>>) IN
       /\ filePath' = loc
       /\ resolved' = IF ExistsSync(loc) THEN "added" ELSE "skipped"
    /\ UNCHANGED <<reqs, disk, uploads, listening, sanVars, cfgVars, fileUrl, clientVars>>

NextRef == ResolveReference

SpecRef == InitRef /\ [][NextRef]_vars

(***************************************************************************)
(* The page (app.vue). An item is a FileItem: name is file.name, a member  *)
(* that is undefined is <<>> and <<v>> when it is set. A batch request     *)
(* that was sent and not answered yet is a record of outstanding.          *)
(***************************************************************************)
\* the most items the image list holds in the model
MaxItems == 3
\* the most items the audio list holds in the model
MaxAudioItems == 1
\* const limit = 50
Limit == 50
\* upload.array('images', 50)
MaxCount == 50

\* "n" and "m"
NameN == <<110>>
NameM == <<109>>
\* the names of the files a user drops on the page
ClientNames == {NameN, NameM}
\* what one drop or one file selection brings
ClientDrops == SeqsUpTo(ClientNames, 2) \ {<<>>}
\* what a user saves in the resize dialog
SavedResize == [width |-> 40, height |-> 30, quality |-> 80]
\* the bitrate a user saves in the audio dialog
SavedAudioConfig == "128k"

Min(a, b) == IF a <= b THEN a ELSE b

\* Slice that keeps every new file
SliceAll(newFiles, remainingSlots) == newFiles

\* newFiles.slice(0, remainingSlots)
Slice(newFiles, remainingSlots) == SubSeq(newFiles, 1, Min(Len(newFiles), remainingSlots))

\* filesToAdd.map(file => ({ file, id, status: 'pending', result: undefined })):
\* the ids are random strings, here the numbers after base, which differ
\* within a list
MappedFiles(filesToAdd, base) ==
    [k \in 1..Len(filesToAdd) |->
        [id |-> base + k, name |-> filesToAdd[k], status |-> "pending",
         result |-> <<>>, audioResult |-> <<>>, resize |-> <<>>, audioConfig |-> <<>>]]

\* addFiles(newFiles, type): the new items are put before the old ones
AddFiles(newFiles, type) ==
    LET targetList == IF type = "image" THEN clientFiles ELSE audioFiles
        remainingSlots == Limit - Len(targetList)
        mappedFiles == MappedFiles(Slice(newFiles, remainingSlots), Len(targetList))
    IN  /\ IF remainingSlots <= 0
           THEN UNCHANGED <<clientFiles, audioFiles>>
           ELSE IF type = "image"
           THEN /\ clientFiles' = mappedFiles \o clientFiles
                /\ UNCHANGED audioFiles
           ELSE /\ audioFiles' = mappedFiles \o audioFiles
                /\ UNCHANGED clientFiles
        /\ UNCHANGED <<reqs, disk, uploads, listening, sanVars, cfgVars, refVars,
                       isProcessing, outstanding, uploaded>>

\* findIndex(f => f.id === id), 0 when there is none
FindIndexById(list, id) ==
    IF \E k \in 1..Len(list) : list[k].id = id
    THEN CHOOSE k \in 1..Len(list) :
            list[k].id = id /\ \A j \in 1..(k - 1) : list[j].id # id
    ELSE 0

\* findIndex(f => f.file.name === originalName), 0 when there is none
FindIndexByName(list, originalName) ==
    IF \E k \in 1..Len(list) : list[k].name = originalName
    THEN CHOOSE k \in 1..Len(list) :
            list[k].name = originalName /\ \A j \in 1..(k - 1) : list[j].name # originalName
    ELSE 0

\* saveResize() with the dialog opened on the image item id
SaveResize(id) ==
    LET index == FindIndexById(clientFiles, id) IN
    /\ index # 0
    /\ clientFiles[index].resize # <<SavedResize>>
    /\ clientFiles' = [clientFiles EXCEPT ![index].resize = <<SavedResize>>]
    /\ UNCHANGED <<reqs, disk, uploads, listening, sanVars, cfgVars, refVars,
                   audioFiles, isProcessing, outstanding, uploaded>>

\* saveAudioConfig() with the dialog opened on the audio item id; the
\* button is shown for an item without result that is not processing
SaveAudioConfig(id) ==
    LET index == FindIndexById(audioFiles, id) IN
    /\ index # 0
    /\ audioFiles[index].audioResult = <<>>
    /\ audioFiles[index].status # "processing"
    /\ audioFiles[index].audioConfig # <<SavedAudioConfig>>
    /\ audioFiles' = [audioFiles EXCEPT ![index].audioConfig = <<SavedAudioConfig>>]
    /\ UNCHANGED <<reqs, disk, uploads, listening, sanVars, cfgVars, refVars,
                   clientFiles, isProcessing, outstanding, uploaded>>

RECURSIVE ReduceOptions(_, _, _)
\* list.reduce((acc, f) => { if (f.resize) acc[f.file.name] = f.resize;
\* return acc }, {}): a later item of the same name replaces the entry.
\* member is "resize" or "audioConfig".
ReduceOptions(list, member, acc) ==
    IF list = <<>> THEN acc
    ELSE LET f == Head(list)
             acc2 == IF f[member] # <<>>
                     THEN [n \in DOMAIN acc \cup {f.name} |->
                             IF n = f.name THEN f[member][1] ELSE acc[n]]
                     ELSE acc
         IN  ReduceOptions(Tail(list), member, acc2)

\* the items of list that are pending
IsPending(f) == f.status = "pending"

\* forEach(f => { if (f.status === 'pending') f.status = 'processing' })
MarkProcessing(list) ==
    [k \in 1..Len(list) |->
        IF IsPending(list[k]) THEN [list[k] EXCEPT !.status = "processing"] ELSE list[k]]

\* forEach(f => { if (f.status === 'processing') f.status = 'pending' })
MarkPending(list) ==
    [k \in 1..Len(list) |->
        IF list[k].status = "processing" THEN [list[k] EXCEPT !.status = "pending"]
        ELSE list[k]]

\* the files formData.append() puts in the request, in list order. own is
\* the configuration the item has when it is sent: the request carries
\* the files and one options object keyed by name, not own.
SentFiles(list, member) ==
    LET pending == SelectSeq(list, IsPending) IN
    [k \in 1..Len(pending) |->
        [id |-> pending[k].id, name |-> pending[k].name, own |-> pending[k][member]]]

\* the request processImages or processAudio sends
BatchRequest(type, list, member) ==
    [type |-> type, sent |-> SentFiles(list, member),
     options |-> ReduceOptions(list, member, <<>>)]

\* if (isProcessing.value) return, never taken
AlreadyProcessingNever == FALSE

\* if (isProcessing.value) return
AlreadyProcessing == isProcessing

\* processImages() up to the await. The button is enabled while some item
\* is pending; a click that arrives before the page is rendered again
\* finds isProcessing set.
ProcessImages ==
    /\ isProcessing \/ \E k \in 1..Len(clientFiles) : IsPending(clientFiles[k])
    /\ IF AlreadyProcessing
       THEN UNCHANGED <<clientFiles, isProcessing, outstanding>>
       ELSE /\ isProcessing' = TRUE
            /\ clientFiles' = MarkProcessing(clientFiles)
            /\ outstanding' = Append(outstanding, BatchRequest("image", clientFiles, "resize"))
    /\ UNCHANGED <<reqs, disk, uploads, listening, sanVars, cfgVars, refVars,
                   audioFiles, uploaded>>

\* processAudio() up to the await
ProcessAudio ==
    /\ isProcessing \/ \E k \in 1..Len(audioFiles) : IsPending(audioFiles[k])
    /\ IF AlreadyProcessing
       THEN UNCHANGED <<audioFiles, isProcessing, outstanding>>
       ELSE /\ isProcessing' = TRUE
            /\ audioFiles' = MarkProcessing(audioFiles)
            /\ outstanding' = Append(outstanding, BatchRequest("audio", audioFiles, "audioConfig"))
    /\ UNCHANGED <<reqs, disk, uploads, listening, sanVars, cfgVars, refVars,
                   clientFiles, uploaded>>

\* data.files of a 200 response: one result per file sent, in order, each
\* converted under the entry the options object has for its name. item is
\* the file the artifacts were made from.
ServerResults(q) ==
    [k \in 1..Len(q.sent) |->
        [originalName |-> q.sent[k].name, item |-> q.sent[k].id,
         config |-> IF q.sent[k].name \in DOMAIN q.options
                    THEN <<q.options[q.sent[k].name]>> ELSE <<>>]]

RECURSIVE ApplyResults(_, _, _)
\* data.files.forEach(result => { const fileIndex = findIndex(by name);
\* if (fileIndex !== -1) { status = 'done'; result = result } }).
\* member is "result" or "audioResult".
ApplyResults(list, results, member) ==
    IF results = <<>> THEN list
    ELSE LET result == Head(results)
             fileIndex == FindIndexByName(list, result.originalName)
         IN  ApplyResults(IF fileIndex # 0
                          THEN [list EXCEPT ![fileIndex] =
                                  [list[fileIndex] EXCEPT !.status = "done",
                                                          ![member] = <<result>>]]
                          ELSE list,
                          Tail(results), member)

\* outstanding without its k-th request
Without(seq, k) == SubSeq(seq, 1, k - 1) \o SubSeq(seq, k + 1, Len(seq))

\* the rest of processImages(): the response to the k-th outstanding
\* request arrives. ok is a 200 response; otherwise $fetch throws and the
\* catch block runs. finally resets the flag.
ImagesResponse(k, ok) ==
    /\ k \in 1..Len(outstanding)
    /\ outstanding[k].type = "image"
    /\ clientFiles' = IF ok
                      THEN ApplyResults(clientFiles, ServerResults(outstanding[k]), "result")
                      ELSE MarkPending(clientFiles)
    /\ isProcessing' = FALSE
    /\ outstanding' = Without(outstanding, k)
    /\ UNCHANGED <<reqs, disk, uploads, listening, sanVars, cfgVars, refVars,
                   audioFiles, uploaded>>

\* the rest of processAudio()
AudioResponse(k, ok) ==
    /\ k \in 1..Len(outstanding)
    /\ outstanding[k].type = "audio"
    /\ audioFiles' = IF ok
                     THEN ApplyResults(audioFiles, ServerResults(outstanding[k]), "audioResult")
                     ELSE MarkPending(audioFiles)
    /\ isProcessing' = FALSE
    /\ outstanding' = Without(outstanding, k)
    /\ UNCHANGED <<reqs, disk, uploads, listening, sanVars, cfgVars, refVars,
                   clientFiles, uploaded>>

\* the page is mounted; the server is not part of this specification
InitClient ==
    /\ ServerIdle
    /\ SanIdle
    /\ CfgIdle
    /\ RefIdle
    /\ ClientIdle

\* the user drops files on the image zone
AddImageFiles ==
    \E newFiles \in ClientDrops :
        /\ Len(clientFiles) + Len(newFiles) <= MaxItems
        /\ AddFiles(newFiles, "image")

\* the user drops files on the audio zone
AddAudioFiles ==
    \E newFiles \in ClientDrops :
        /\ Len(audioFiles) + Len(newFiles) <= MaxAudioItems
        /\ AddFiles(newFiles, "audio")

NextClient ==
    \/ AddImageFiles
    \/ AddAudioFiles
    \/ \E k \in 1..Len(clientFiles) : SaveResize(clientFiles[k].id)
    \/ \E k \in 1..Len(audioFiles) : SaveAudioConfig(audioFiles[k].id)
    \/ ProcessImages
    \/ ProcessAudio
    \/ \E k \in 1..Len(outstanding) : \E ok \in BOOLEAN : ImagesResponse(k, ok)
    \/ \E k \in 1..Len(outstanding) : \E ok \in BOOLEAN : AudioResponse(k, ok)

SpecClient == InitClient /\ [][NextClient]_vars

(***************************************************************************)
(* The limits of a list and of an upload: lists of up to Limit items and   *)
(* direct uploads of more than MaxCount files.                             *)
(***************************************************************************)
\* how many files one drop brings: some, many, and more than the limit
DropSizes == {10, 20, Limit + 1}
\* how many files one direct upload to /process-images carries
UploadSizes == {1, MaxCount, MaxCount + 1}

\* upload.array('images', 50): multer fails with a MulterError when the
\* field carries more files than maxCount, and the route answers 400
\* before the handler runs
TooManyFiles(count) == count > MaxCount

\* the user drops n files of one name on a zone
DropMany ==
    \E n \in DropSizes : \E type \in {"image", "audio"} :
        AddFiles([k \in 1..n |-> NameN], type)

\* some client posts count files to /process-images: the middleware of
\* the route
UploadImages ==
    \E count \in UploadSizes :
        /\ uploaded' = <<[count |-> count,
                          status |-> IF TooManyFiles(count) THEN 400 ELSE 0]>>
        /\ UNCHANGED <<reqs, disk, uploads, listening, sanVars, cfgVars, refVars,
                       clientFiles, audioFiles, isProcessing, outstanding>>

NextQueue ==
    \/ DropMany
    \/ UploadImages

SpecQueue == InitClient /\ [][NextQueue]_vars

(***************************************************************************)
(* One item under every options payload.                                   *)
(***************************************************************************)
InitCfg ==
    /\ ServerIdle
    /\ SanIdle
    /\ payload \in Payloads
    /\ cfg = <<>>
    /\ conv = NotStarted
    /\ RefIdle
    /\ ClientIdle

NextCfg ==
    \/ ConfigureImage
    \/ ConvertImage
    \/ ConfigureAudio
    \/ ConvertAudio

SpecCfg == InitCfg /\ [][NextCfg]_vars

(***************************************************************************)
(* Properties.                                                             *)
(***************************************************************************)
\* the elements of a sequence
Range(s) == {s[k] : k \in 1..Len(s)}

\* the batch requests that were answered
AnsweredBatches ==
    {r \in ReqIds : reqs[r].kind \in {"image", "audio"} /\ reqs[r].pc = "done"}

\* the archive requests that were answered
AnsweredZips == {r \in ReqIds : reqs[r].kind = "zip" /\ reqs[r].pc = "done"}

\* the per-item entries of the response to r: a 400 or 500 response is
\* the single object { error }
ResponseEntries(r) == IF reqs[r].status = 200 THEN reqs[r].out ELSE <<>>

\* the virtual paths the response to r returned
ReturnedPaths(r) == UNION {Range(e.paths) : e \in Range(ResponseEntries(r))}

\* the virtual paths some batch response has returned so far
Registered == UNION {ReturnedPaths(r) : r \in AnsweredBatches}

\* the submitted items of r the codec rejects
CorruptItems(r) == {k \in 1..Len(reqs[r].sub) : reqs[r].sub[k].corrupt}

\* C1: a batch of N items of which exactly one is corrupt is answered with
\* N per-item entries, the N-1 others done with their artifacts (the code
\* has no failed entry: the corrupt item would be the one without artifacts).
C1_OneCorruptItemIsIsolated ==
    \A r \in AnsweredBatches :
        Cardinality(CorruptItems(r)) = 1 =>
            /\ reqs[r].status = 200
            /\ \A k \in 1..Len(reqs[r].sub) : k \notin CorruptItems(r) =>
                  \E e \in Range(ResponseEntries(r)) : e.item = k /\ e.paths # <<>>

\* C2: two items of one batch with the same base id are answered with
\* distinct virtual paths, each naming a file written from its own upload.
C2_CollidingItemsKeepOwnArtifacts ==
    \A r \in AnsweredBatches :
        \A a, b \in 1..Len(ResponseEntries(r)) :
            LET ea == ResponseEntries(r)[a]
                eb == ResponseEntries(r)[b]
            IN  (a # b /\ Sanitize(ea.originalName) = Sanitize(eb.originalName)) =>
                   /\ Range(ea.paths) \cap Range(eb.paths) = {}
                   /\ \A p \in Range(ea.paths) : disk[Basename(p)] = <<r, ea.item>>

\* the virtual paths of the files conversion tasks have written so far
Produced == {VirtualPath(name) : name \in DOMAIN disk}

\* C3: an archive holds an entry only for a requested reference that is
\* the virtual path of an output of a conversion task.
C3_ArchiveOnlyRegisteredPaths ==
    \A r \in AnsweredZips :
        \A k \in 1..Len(reqs[r].refs) :
            Basename(reqs[r].refs[k]) \in Range(reqs[r].entries) =>
                reqs[r].refs[k] \in Produced

\* a reference of an archive request resolves when processed/ held a file
\* of its base name as the request was handled
Resolvable(r, ref) == Basename(ref) \in reqs[r].seen

\* C4: an archive request listing resolvable and unresolvable references is
\* answered with an archive of one entry per resolvable reference and none
\* for the others; the unresolvable ones do not fail it.
C4_ArchiveIsResolvableSubset ==
    \A r \in AnsweredZips :
        LET q == reqs[r] IN
        (q.body = "list" /\ q.refs # <<>> /\ NotAString \notin Range(q.refs)) =>
            /\ q.status = 200
            /\ Len(q.entries) = Cardinality({k \in 1..Len(q.refs) : Resolvable(r, q.refs[k])})
            /\ \A k \in 1..Len(q.refs) :
                  Resolvable(r, q.refs[k]) <=> Basename(q.refs[k]) \in Range(q.entries)

\* an archive of two entries was sent for a list of a returned reference,
\* a reference to a file that does not exist, and another returned reference
C4_Witness ==
    \E r \in AnsweredZips :
        LET q == reqs[r] IN
        /\ q.status = 200
        /\ Len(q.refs) = 3
        /\ q.refs[1] \in Registered /\ Resolvable(r, q.refs[1])
        /\ ~Resolvable(r, q.refs[2])
        /\ q.refs[3] \in Registered /\ Resolvable(r, q.refs[3])
        /\ q.refs[1] # q.refs[3]
        /\ q.entries = <<Basename(q.refs[1]), Basename(q.refs[3])>>

\* C5: an archive request whose list is missing, not a list or empty is
\* answered with an error and no archive is started.
C5_EmptyArchiveRequestRejected ==
    \A r \in AnsweredZips :
        (reqs[r].body # "list" \/ reqs[r].refs = <<>>) =>
            /\ reqs[r].status = 400
            /\ ~reqs[r].archive
            /\ reqs[r].entries = <<>>

\* an empty list was rejected while processed/ held files
C5_Witness ==
    \E r \in AnsweredZips :
        /\ reqs[r].body = "list"
        /\ reqs[r].refs = <<>>
        /\ reqs[r].status = 400
        /\ disk # <<>>

\* C6: no archive without entries is sent.
C6_NoEmptyArchive ==
    \A r \in AnsweredZips : reqs[r].status = 200 => reqs[r].entries # <<>>

\* C7: the base id of every file name is non-empty and made of
\* [A-Za-z0-9._-] only.
C7_BaseIdNonEmptyAndSafe ==
    sanitized =>
        /\ filename # <<>>
        /\ \A k \in 1..Len(filename) : IsSafeChar(filename[k])

\* C8: a virtual path returned by one batch is not returned again by a
\* batch handled after it.
C8_VirtualPathsNeverReused ==
    \A r1, r2 \in AnsweredBatches :
        (r1 < r2 /\ r1 \notin reqs[r2].overlap) =>
            ReturnedPaths(r1) \cap ReturnedPaths(r2) = {}

\* C9: two batches handled at the same time do not both return the same
\* virtual path.
C9_ConcurrentBatchesClaimDistinctPaths ==
    \A r1, r2 \in AnsweredBatches :
        (r1 < r2 /\ r1 \in reqs[r2].overlap) =>
            ReturnedPaths(r1) \cap ReturnedPaths(r2) = {}

\* C10: the entries of a batch response are in the order the items were
\* submitted.
C10_EntriesInSubmissionOrder ==
    \A r \in AnsweredBatches :
        \A a, b \in 1..Len(ResponseEntries(r)) :
            a < b => ResponseEntries(r)[a].item < ResponseEntries(r)[b].item

\* the batch requests that carried no file
EmptyBatches ==
    {r \in ReqIds : reqs[r].kind \in {"image", "audio"} /\ Len(reqs[r].sub) = 0}

\* C11: a batch request that carries no files is answered at once with one
\* error response (400, or 500 when /process-audio gets a request that is
\* not multipart): its loop never starts, it returns no entry and no file
\* of processed/ comes from it.
C11_EmptyBatchRejected ==
    \A r \in EmptyBatches :
        /\ reqs[r].pc = "done"
        /\ reqs[r].status \in {400, 500}
        /\ reqs[r].i = 0
        /\ reqs[r].out = <<>>
        /\ \A f \in DOMAIN disk : disk[f][1] # r

\* an empty multipart image batch and an empty multipart audio batch were
\* both rejected
C11_Witness ==
    \E r1, r2 \in EmptyBatches :
        /\ reqs[r1].kind = "image" /\ reqs[r1].multipart /\ reqs[r1].status = 400
        /\ reqs[r2].kind = "audio" /\ reqs[r2].multipart /\ reqs[r2].status = 400

\* a payload, or an entry of it, that is not an object of options
Malformed(p) ==
    \/ p.body \in {"unparsable", "null", "scalar"}
    \/ p.body = "object" /\ p.entry.shape \in {"falsy", "scalar"}

\* the resolved configuration is the documented defaults
IsDefaultConfig ==
    /\ cfg # <<>>
    /\ payload.kind = "image" =>
          /\ cfg[1].quality = 80
          /\ ~Truthy(cfg[1].resizeOptions)
    /\ payload.kind = "audio" =>
          /\ cfg[1].bitrate = "192k"
          /\ cfg[1].channels = 2
          /\ cfg[1].speed = 10

\* C12: a malformed options payload or entry is treated as absent: the
\* item gets the defaults and the request does not fail because of it.
C12_MalformedOptionsTreatedAsAbsent ==
    (Malformed(payload) /\ conv.pc # "new") =>
        (conv.cause # "payload" /\ IsDefaultConfig)

C14_QualityClamped ==
    (payload.kind = "image" /\ payload.body = "object"
       /\ payload.entry.shape = "object" /\ payload.entry.quality # <<>>) =>
        \A k \in DOMAIN conv.calls :
            conv.calls[k].op \in {"avif", "webp", "resizedOriginal"} =>
                /\ conv.calls[k].quality[1] \in 1..100
                /\ payload.entry.quality[1] \in 1..100 =>
                      conv.calls[k].quality = payload.entry.quality

\* the speed factor a transcoder call applies, in tenths
TranscoderSpeed(call) == IF call.filters = <<>> THEN 10 ELSE call.filters[1][2]

\* C15: whatever speed the entry gives, the speed handed to the
\* transcoder lies in 0.5..1.5, and is the one given when that lies in
\* 0.5..1.5.
C15_SpeedClamped ==
    (payload.kind = "audio" /\ payload.body = "object"
       /\ payload.entry.shape = "object" /\ payload.entry.speed # <<>>) =>
        \A k \in DOMAIN conv.calls :
            /\ TranscoderSpeed(conv.calls[k]) \in 5..15
            /\ payload.entry.speed[1] \in 5..15 =>
                  TranscoderSpeed(conv.calls[k]) = payload.entry.speed[1]

\* C16: a bitrate outside 128k, 192k, 320k is replaced by 192k.
C16_UnknownBitrateReplaced ==
    (payload.kind = "audio" /\ payload.body = "object"
       /\ payload.entry.shape = "object" /\ payload.entry.bitrate # <<>>
       /\ payload.entry.bitrate[1] \notin {"128k", "192k", "320k"}) =>
        \A k \in DOMAIN conv.calls : conv.calls[k].bitrate = "192k"

\* C17: the transcoder gets one channel exactly when the entry says
\* 'mono', and two for 'stereo', for any other selector and for none.
C17_ChannelsMonoOnlyWhenMono ==
    payload.kind = "audio" =>
        \A k \in DOMAIN conv.calls :
            conv.calls[k].channels =
                IF payload.body = "object" /\ payload.entry.shape = "object"
                   /\ payload.entry.channels = <<"mono">>
                THEN 1 ELSE 2

\* a file whose selector is '5.1' was transcoded with two channels
C17_Witness ==
    /\ payload.kind = "audio" /\ payload.entry.channels = <<"5.1">>
    /\ conv.pc = "done" /\ conv.calls[1].channels = 2

\* "data:"
DataScheme == <<100, 97, 116, 97, 58>>

\* the configuration gives a target width or height
HasDimension(c) ==
    Truthy(c.resizeOptions)
    /\ (c.resizeOptions.width # <<>> \/ c.resizeOptions.height # <<>>)

\* C18: a converted image (with no entry, or with an object for entry) has
\* both variants and a placeholder that is a data URL, and a resized
\* original exactly when its configuration gives a width or a height.
C18_ResizedOriginalIffDimension ==
    (payload.kind = "image" /\ conv.pc = "done"
       /\ Lookup(payload).shape \in {"none", "object"}) =>
        /\ {"avif", "webp"} \subseteq Range(conv.artifacts)
        /\ Len(conv.lqip) >= Len(DataScheme)
        /\ SubSeq(conv.lqip, 1, Len(DataScheme)) = DataScheme
        /\ "resizedOriginal" \in Range(conv.artifacts) <=> HasDimension(cfg[1])

\* C19: a converted audio file has exactly one artifact, made by one
\* transcoder call, which carries atempo exactly when the resolved speed
\* is not 1.0.
C19_OneTranscodeTempoIffSpeed ==
    (payload.kind = "audio" /\ conv.pc = "done") =>
        /\ conv.artifacts = <<"mp3">>
        /\ Len(conv.calls) = 1
        /\ conv.calls[1].op = "ffmpeg"
        /\ conv.calls[1].filters # <<>> <=> cfg[1].speed # 10
        /\ conv.calls[1].filters # <<>> =>
              conv.calls[1].filters = <<<<"atempo", cfg[1].speed>>>>

\* a file given the speed 0.5 was converted by a call with atempo=0.5
C19_Witness ==
    /\ payload.kind = "audio" /\ conv.pc = "done"
    /\ payload.entry.speed = <<5>>
    /\ conv.calls[1].filters = <<<<"atempo", 5>>>>

\* C20: every batch request the server accepted is answered, also when a
\* codec invocation of one of its items never completes.
C20_EveryBatchIsAnswered ==
    \A r \in ReqIds :
        (reqs[r].kind \in {"image", "audio"}) ~> (reqs[r].pc = "done")

\* C22: when a batch is answered every file it carried has been through
\* its loop iteration, the ones after a failing file included: the loop
\* has reached the last file.
C22_EveryItemReachesTerminal ==
    \A r \in AnsweredBatches :
        Len(reqs[r].files) > 0 => reqs[r].i = Len(reqs[r].files)

C30_ReturnedReferencesResolve ==
    [][\A r \in ReqIds :
          (/\ reqs[r].kind = "idle"
           /\ reqs'[r].kind = "zip"
           /\ reqs'[r].body = "list"
           /\ reqs'[r].refs # <<>>
           /\ Range(reqs'[r].refs) \subseteq Registered) =>
              /\ reqs'[r].status = 200
              /\ Len(reqs'[r].entries) = Len(reqs'[r].refs)
              /\ \A k \in 1..Len(reqs'[r].refs) :
                    VirtualPath(reqs'[r].entries[k]) = reqs'[r].refs[k]]_vars

\* an archive request listed exactly the references one successful batch
\* response returned and got one entry for each
C30_Witness ==
    \E r \in AnsweredZips : \E a \in AnsweredBatches :
        /\ a < r
        /\ reqs[a].status = 200
        /\ Range(reqs[r].refs) = ReturnedPaths(a)
        /\ Len(reqs[r].refs) = Cardinality(ReturnedPaths(a))
        /\ Len(reqs[r].entries) = Len(reqs[r].refs)
        /\ Len(reqs[r].refs) >= 2

\* C29: whatever the reference, the location the archive handler looks up
\* and hands to the archiver is a direct child of processed/, and a file
\* when it is added to the archive.
C29_LocationIsChildOfProcessed ==
    resolved # "none" =>
        /\ Len(filePath) = 2
        /\ filePath[1] = ProcessedDirName
        /\ resolved = "added" => filePath[2] \in DOMAIN disk

\* C21: whatever files are added, neither list of the page holds more than
\* 50 items, and an upload of more than 50 files to the image endpoint is
\* rejected with a 400 response.
C21_ListsAndUploadsAreBounded ==
    /\ Len(clientFiles) <= Limit
    /\ Len(audioFiles) <= Limit
    /\ \A k \in 1..Len(uploaded) :
          uploaded[k].count > MaxCount => uploaded[k].status = 400

\* both lists are full and an upload of one file too many was rejected
C21_Witness ==
    /\ Len(clientFiles) = Limit
    /\ Len(audioFiles) = Limit
    /\ \E k \in 1..Len(uploaded) :
          uploaded[k].count = MaxCount + 1 /\ uploaded[k].status = 400

\* the ids of the items of a list
Ids(list) == {list[k].id : k \in 1..Len(list)}

\* the item of a list with the given id
ItemById(list, id) == list[FindIndexById(list, id)]

\* every item of list is in list2 and went one step of pending ->
\* processing -> {done, failed}, or none
StepsOfStatusMachine(list, list2) ==
    \A id \in Ids(list) :
        LET st == ItemById(list, id).status
            st2 == ItemById(list2, id).status
        IN  \/ st2 = st
            \/ st = "pending" /\ st2 = "processing"
            \/ st = "processing" /\ st2 \in {"done", "failed"}

\* C23: the status of an item only goes from pending to processing and
\* from processing to a terminal status (done or failed), and a terminal
\* status never changes.
C23_StatusMachine ==
    [][/\ StepsOfStatusMachine(clientFiles, clientFiles')
       /\ StepsOfStatusMachine(audioFiles, audioFiles')]_vars

\* C24: every file of a batch request is converted under the
\* configuration its own item had when the request was sent.
C24_OwnConfiguration ==
    \A j \in 1..Len(outstanding) :
        \A k \in 1..Len(outstanding[j].sent) :
            ServerResults(outstanding[j])[k].config = outstanding[j].sent[k].own

\* no item of list goes from pending to processing
NoneStarted(list, list2) ==
    \A id \in Ids(list) :
        ItemById(list, id).status = "pending" => ItemById(list2, id).status # "processing"

\* C26: at most one batch request is outstanding, the flag is false when
\* none is, and no step taken while one is outstanding sends a request or
\* turns an item to processing.
C26_OneBatchInFlight ==
    [][/\ Len(outstanding') <= 1
       /\ outstanding' = <<>> => ~isProcessing'
       /\ outstanding # <<>> =>
            /\ Len(outstanding') <= Len(outstanding)
            /\ NoneStarted(clientFiles, clientFiles')
            /\ NoneStarted(audioFiles, audioFiles')]_vars

\* a request is outstanding while an item added since is pending: the
\* button is enabled and a click returns at the guard
C26_Witness ==
    /\ Len(outstanding) = 1
    /\ isProcessing
    /\ \E k \in 1..Len(clientFiles) : clientFiles[k].status = "processing"
    /\ \E k \in 1..Len(clientFiles) : IsPending(clientFiles[k])
    /\ \E k \in 1..Len(audioFiles) : IsPending(audioFiles[k])

\* the list a request is about, and the member its results are stored in
ListOf(type, images, audio) == IF type = "image" THEN images ELSE audio
ResultMember(type) == IF type = "image" THEN "result" ELSE "audioResult"

\* C27: when a batch request is answered no item of its list is left
\* processing, and either every item it carried is done with the result
\* made from its own file, or every item it carried is pending again.
C27_CompletionSettlesEveryItem ==
    [][\A j \in 1..Len(outstanding) :
          outstanding' = Without(outstanding, j) =>
             LET q == outstanding[j]
                 list2 == ListOf(q.type, clientFiles', audioFiles')
                 sent == {q.sent[k].id : k \in 1..Len(q.sent)}
             IN  /\ \A k \in 1..Len(list2) : list2[k].status # "processing"
                 /\ \/ \A id \in sent :
                          /\ ItemById(list2, id).status = "done"
                          /\ ItemById(list2, id)[ResultMember(q.type)] # <<>>
                          /\ ItemById(list2, id)[ResultMember(q.type)][1].item = id
                    \/ \A id \in sent : ItemById(list2, id).status = "pending"]_vars

\* every item of list that is done is the same in list2
DoneItemsKept(list, list2) ==
    \A id \in Ids(list) :
        ItemById(list, id).status = "done" =>
            /\ ItemById(list2, id).status = "done"
            /\ ItemById(list2, id).result = ItemById(list, id).result
            /\ ItemById(list2, id).audioResult = ItemById(list, id).audioResult

\* C28: no step changes the status or the stored result of an item that
\* is done.
C28_DoneItemsAreFinal ==
    [][/\ DoneItemsKept(clientFiles, clientFiles')
       /\ DoneItemsKept(audioFiles, audioFiles')]_vars
====
